---- MODULE Spec2Model ----
(***************************************************************************)
(* BoundedExecutor (utils/executor) and HttpClient.request (api/auth) of    *)
(* the futureagi TypeScript SDK.                                           *)
(*                                                                         *)
(* The executor runs on one JavaScript event loop: code between two        *)
(* `await`s is atomic, and every `await` is a point where other callbacks  *)
(* may run.  Each action below is one such atomic segment.  The relative   *)
(* order of independent continuations depends on how many ticks each       *)
(* `await` takes (native async functions or a down-levelled helper) and on *)
(* when the caller's own callbacks run, so pending continuations may run   *)
(* in any order.                                                           *)
(*                                                                         *)
(* Work items are numbered in the order in which submit() is called for    *)
(* them.  A worker (the promise returned by runWorker) is named after the  *)
(* work item whose submit() started it.                                    *)
(*                                                                         *)
(* Three specifications share the variables:                               *)
(*   Spec / FairSpec  the executor alone, work items being opaque          *)
(*                    functions that return or throw;                      *)
(*   ReqSpec          the function HttpClient.request hands to the         *)
(*                    executor (the attempt loop), one request in detail;  *)
(*   ClientSpec       one HttpClient: its executor with an attempt loop    *)
(*                    as the function of every work item;                  *)
(*   DatasetSpec      one Dataset instance: its config and the methods     *)
(*                    that test and change it.                             *)
(***************************************************************************)
EXTENDS Integers, Sequences, FiniteSets, TLC

\* ----------------------------------------------------------------- bounds
NItems == 3          \* number of submit() calls explored
MaxBound == 1        \* constructor argument bound ranges over 0..MaxBound
MaxWorkersCap == 2   \* constructor argument maxWorkers ranges over 1..MaxWorkersCap
MaxCfgAttempts == 3  \* config.retry_attempts ranges over 0..MaxCfgAttempts (0: absent)
MaxCfgDelay == 1     \* config.retry_delay ranges over 0..MaxCfgDelay (0: absent)
MaxPending == 2      \* requests of one Dataset method that may be in flight at once

\* ------------------------------------------------------ program constants
DefaultRetryAttempts == 3   \* `config.retryAttempts || 3`
DefaultRetryDelay == 1000   \* `config.retryDelay || 1000`

Items == 1..NItems

\* the Dataset methods that issue a request
RequestMethods == {"create", "delete", "download", "addColumns"}

VARIABLES
    bound,        \* constructor argument
    maxWorkers,   \* this.maxWorkers
    semaphore,    \* this.semaphore
    isShutdown,   \* this.isShutdown
    queue,        \* this.queue (tasks, named by their work item)
    workers,      \* this.workers (worker promises, named by the starting item)
    wpc,          \* position of each runWorker call
    wtask,        \* runWorker's local currentTask
    pc,           \* position of each submit call / its task
    fn,           \* how the item's function ended: "returns" or "throws"
    handle,       \* state of the promise submit() returned
    waiters,      \* pending shutdown(true) calls, each as the set of worker
                  \* promises of its Promise.all that are not yet settled
    \* history (never read by the program)
    qseq,         \* position in the order of queue.push calls (0: never pushed)
    qcount,       \* number of queue.push calls so far
    shutQueued,   \* items that were in the queue at some shutdown(true) call
    waitResolved, \* some shutdown(true) call has resolved
    \* one request() in detail (ReqSpec)
    rHandler,     \* the responseHandler argument ("none": absent)
    rBudget,      \* request's local retryAttempts
    rDelay,       \* request's local retryDelay
    rAttempt,     \* the loop variable attempt
    rpc,          \* position of the loop: "call", "sleep", "returned", "threw"
    rResult,      \* what the latest pass of the loop body produced
    \* history of the request (never read by the program)
    rCalls,       \* number of transport calls that have completed
    rDelays,      \* the durations passed to _sleep, in order
    rLast,        \* the outcome of the latest transport call
    rSame,        \* every transport call so far had the outcome rLast
    \* the attempt loop of every work item of one client (ClientSpec)
    cPhase,       \* "none", "call" (transport call in flight), "sleep", "ended"
    cAttempt,     \* the loop variable attempt of the item's function (0 when the
                  \* function is not running)
    \* one Dataset instance (DatasetSpec)
    dConfig,      \* this._datasetConfig: "null", "noId" (set, id missing), "withId"
    dPending,     \* per method, the number of its calls awaiting their request
    dLast         \* history: the latest method call or completion (op), its
                  \* result (res), the config it found (cfg) and what assigned
                  \* the config the instance holds now (src)

reqVars == <<rHandler, rBudget, rDelay, rAttempt, rpc, rResult, rCalls, rDelays,
             rLast, rSame>>
clientVars == <<cPhase, cAttempt>>
dataVars == <<dConfig, dPending, dLast>>

vars == <<bound, maxWorkers, semaphore, isShutdown, queue, workers, wpc, wtask,
          pc, fn, handle, waiters, qseq, qcount, shutQueued, waitResolved,
          reqVars, clientVars, dataVars>>

execVars == <<bound, maxWorkers>>
histVars == <<qseq, qcount, shutQueued, waitResolved>>

TypeOK ==
    /\ bound \in 0..MaxBound
    /\ maxWorkers \in 1..MaxWorkersCap
    /\ semaphore \in Int
    /\ isShutdown \in BOOLEAN
    /\ queue \in Seq(Items)
    /\ workers \subseteq Items
    /\ wpc \in [Items -> {"none", "run", "next", "ret", "gone"}]
    /\ wtask \in [Items -> Items \cup {0}]
    /\ pc \in [Items -> {"idle", "rejected", "polling", "admitted", "queued",
                         "running", "done", "dropped"}]
    /\ fn \in [Items -> {"none", "returns", "throws"}]
    /\ handle \in [Items -> {"none", "pending", "resolved", "rejected",
                             "shutdownError"}]
    /\ waiters \subseteq SUBSET Items
    /\ rBudget \in Nat /\ rDelay \in Nat /\ rAttempt \in Nat /\ rCalls \in Nat
    /\ rpc \in {"none", "call", "sleep", "returned", "threw"}
    /\ rDelays \in Seq(Nat)
    /\ rSame \in BOOLEAN
    /\ cPhase \in [Items -> {"none", "call", "sleep", "ended"}]
    /\ cAttempt \in [Items -> Nat]
    /\ dConfig \in {"null", "noId", "withId"}
    /\ dPending \in [RequestMethods -> 0..MaxPending]

\* constructor: semaphore = bound + maxWorkers, everything else empty
ExecInit ==
    /\ bound \in 0..MaxBound
    /\ maxWorkers \in 1..MaxWorkersCap
    /\ semaphore = bound + maxWorkers
    /\ isShutdown = FALSE
    /\ queue = <<>>
    /\ workers = {}
    /\ wpc = [i \in Items |-> "none"]
    /\ wtask = [i \in Items |-> 0]
    /\ pc = [i \in Items |-> "idle"]
    /\ fn = [i \in Items |-> "none"]
    /\ handle = [i \in Items |-> "none"]
    /\ waiters = {}
    /\ qseq = [i \in Items |-> 0]
    /\ qcount = 0
    /\ shutQueued = {}
    /\ waitResolved = FALSE

\* ------------------------------------------------- requests and responses
\* the response interpreters of the repository ("none": request() called
\* without one)
Handlers == {"none", "dataset", "evalInfo", "kb", "simpleJson", "prompt",
             "providerKey"}

\* HTTP statuses the transport may return (validateStatus accepts them all)
Statuses == {200, 201, 400, 401, 403, 404, 429, 500, 501, 503}

\* what the interpreters look at in the body:
\*   "statusFalse"  the payload reports a failure of the operation (status:
\*                  false, no result, no search match, several datasets)
\*   "noDatasets"   a dataset listing with no entry
\*   "tplNotFound"  a 400 body whose result says no PromptTemplate matches
\*   "tplExists"    a 400 body with errorCode TEMPLATE_ALREADY_EXIST
Bodies(st) ==
    IF st = 200 THEN {"plain", "statusFalse", "noDatasets"}
    ELSE IF st = 400 THEN {"plain", "tplNotFound", "tplExists"}
    ELSE {"plain"}

\* outcomes of `await this._axiosInstance.request(requestConfig)`: a response,
\* or an AxiosError with the status of error.response (0: no response)
Outcomes ==
    UNION {{[k |-> "resp", st |-> st, body |-> b] : b \in Bodies(st)} :
             st \in Statuses}
    \cup {[k |-> "axios", st |-> st, body |-> "plain"] : st \in {0, 401, 500}}

NoOutcome == [k |-> "none", st |-> 0, body |-> "plain"]

\* t: "value" (v: the interpreter that parsed it), "response" (the raw
\* response) or "error" (v: its class); via: the method that produced it
NoResult == [t |-> "none", v |-> "none", via |-> "none"]

NoRequest ==
    /\ rHandler = "none"
    /\ rBudget = 0
    /\ rDelay = 0
    /\ rAttempt = 0
    /\ rpc = "none"
    /\ rResult = NoResult
    /\ rCalls = 0
    /\ rDelays = <<>>
    /\ rLast = NoOutcome
    /\ rSame = TRUE

NoClient ==
    /\ cPhase = [i \in Items |-> "none"]
    /\ cAttempt = [i \in Items |-> 0]

NoEvent == [op |-> "none", res |-> "none", cfg |-> "null", src |-> "constructor"]

NoDataset ==
    /\ dConfig = "null"
    /\ dPending = [m \in RequestMethods |-> 0]
    /\ dLast = NoEvent
\* the executor on its own: no request is modelled
Init ==
    /\ ExecInit
    /\ NoRequest
    /\ NoClient
    /\ NoDataset

\* ------------------------------------------------------------- semaphore
\* acquireSemaphore, one pass from the loop head: park on the 1 ms timer
\* while the counter is exhausted, otherwise take one unit.
CanAcquireOffByOne == semaphore >= 0

CanAcquire == semaphore > 0

acquireOrReject(i) ==
    IF CanAcquire
    THEN /\ semaphore' = semaphore - 1
         /\ pc' = [pc EXCEPT ![i] = "admitted"]
    ELSE /\ pc' = [pc EXCEPT ![i] = "rejected"]
         /\ UNCHANGED semaphore

acquireSemaphore(i) ==
    IF CanAcquire
    THEN /\ semaphore' = semaphore - 1
         /\ pc' = [pc EXCEPT ![i] = "admitted"]
    ELSE /\ pc' = [pc EXCEPT ![i] = "polling"]
         /\ UNCHANGED semaphore

\* ----------------------------------------------------------------- submit
\* submit's guard: `if (this.isShutdown) throw ...`
ShutdownCheckMissing == FALSE

ShutdownCheck == isShutdown

\* submit(fn): the synchronous part up to `await this.acquireSemaphore()`.
SubmitCall(i) ==
    /\ pc[i] = "idle"
    /\ \A j \in Items : j < i => pc[j] # "idle"
    /\ IF ShutdownCheck
       THEN /\ pc' = [pc EXCEPT ![i] = "rejected"]
            /\ handle' = [handle EXCEPT ![i] = "shutdownError"]
            /\ UNCHANGED semaphore
       ELSE /\ acquireSemaphore(i)
            /\ handle' = [handle EXCEPT ![i] = "pending"]
    /\ UNCHANGED <<execVars, isShutdown, queue, workers, wpc, wtask, fn, waiters,
                   qseq, qcount, shutQueued, waitResolved>>

\* the 1 ms timer of a parked acquireSemaphore fires: test the counter again
Poll(i) ==
    /\ pc[i] = "polling"
    /\ acquireSemaphore(i)
    /\ UNCHANGED <<execVars, isShutdown, queue, workers, wpc, wtask, fn, handle,
                   waiters, qseq, qcount, shutQueued, waitResolved>>

\* `this.workers.size < this.maxWorkers`
HasFreeWorkerSlotOffByOne == Cardinality(workers) <= maxWorkers

HasFreeWorkerSlotAlways == TRUE

HasFreeWorkerSlot == Cardinality(workers) < maxWorkers

\* runWorker's loop condition `currentTask && !this.isShutdown`
\* (t = 0 stands for undefined)
WorkerContinues(t) == t # 0 /\ ~isShutdown

\* queue.push(task)
QueueUnshift(q, t) == <<t>> \o q

QueuePush(q, t) == Append(q, t)

\* queue.shift(): the item removed (0 for undefined) and the remaining queue
QueueShiftItem(q) == IF q = <<>> THEN 0 ELSE Head(q)
QueueShiftRestKeeps(q) == q

QueueShiftRest(q) == IF q = <<>> THEN q ELSE Tail(q)

\* startWorker(task) for the task of item i: runWorker runs synchronously up
\* to its first await (the task's function is invoked if the loop is entered),
\* then the worker promise is added to the set.
startWorker(i) ==
    /\ workers' = workers \cup {i}
    /\ IF WorkerContinues(i)
       THEN /\ pc' = [pc EXCEPT ![i] = "running"]
            /\ wpc' = [wpc EXCEPT ![i] = "run"]
            /\ wtask' = [wtask EXCEPT ![i] = i]
       ELSE /\ pc' = [pc EXCEPT ![i] = "dropped"]
            /\ wpc' = [wpc EXCEPT ![i] = "ret"]
            /\ UNCHANGED wtask

\* submit after `await this.acquireSemaphore()`: the Promise executor builds
\* the task and starts a worker or queues the task.
Place(i) ==
    /\ pc[i] = "admitted"
    /\ IF HasFreeWorkerSlot
       THEN /\ startWorker(i)
            /\ UNCHANGED <<queue, qseq, qcount>>
       ELSE /\ queue' = QueuePush(queue, i)
            /\ pc' = [pc EXCEPT ![i] = "queued"]
            /\ qseq' = [qseq EXCEPT ![i] = qcount + 1]
            /\ qcount' = qcount + 1
            /\ UNCHANGED <<workers, wpc, wtask>>
    /\ UNCHANGED <<execVars, semaphore, isShutdown, fn, handle, waiters,
                   shutQueued, waitResolved>>

\* ------------------------------------------------------------------- task
\* the handle after the task's try/catch: resolve(result) or reject(error)
SettledHandleUnlessShutdown(r) ==
    IF isShutdown THEN "pending"
    ELSE IF r = "returns" THEN "resolved" ELSE "rejected"

SettledHandle(r) == IF r = "returns" THEN "resolved" ELSE "rejected"

\* the semaphore after the task's finally block (releaseSemaphore)
SemaphoreAfterTaskNoFinally(r) == IF r = "throws" THEN semaphore ELSE semaphore + 1

SemaphoreAfterTaskUnlessShutdown(r) ==
    IF isShutdown THEN semaphore ELSE semaphore + 1

SemaphoreAfterTask(r) == semaphore + 1

\* where the worker that awaited the task of item i resumes: the task catches
\* the function's error, so runWorker's await never throws
WorkerAfterTaskUncaught(r) == IF r = "throws" THEN "ret" ELSE "next"

WorkerAfterTask(r) == "next"

\* the function of item i finishes, returning or throwing (r): the task
\* settles the handle, releases the unit and returns, which makes the awaiting
\* worker runnable.
TaskFinish(i, r) ==
    /\ pc[i] = "running"
    /\ fn' = [fn EXCEPT ![i] = r]
    /\ handle' = [handle EXCEPT ![i] = SettledHandle(r)]
    /\ semaphore' = SemaphoreAfterTask(r)
    /\ pc' = [pc EXCEPT ![i] = "done"]
    /\ wpc' = [w \in Items |->
                 IF wpc[w] = "run" /\ wtask[w] = i THEN WorkerAfterTask(r)
                 ELSE wpc[w]]
    /\ UNCHANGED <<execVars, isShutdown, queue, workers, wtask, waiters,
                   histVars>>

\* ----------------------------------------------------------------- worker
\* runWorker after `await currentTask()`: shift the queue, test the loop
\* condition, and either invoke the next task or return.
WorkerNext(w) ==
    /\ wpc[w] = "next"
    /\ LET t == QueueShiftItem(queue) IN
       /\ queue' = QueueShiftRest(queue)
       /\ IF WorkerContinues(t)
          THEN /\ pc' = [pc EXCEPT ![t] = "running"]
               /\ wpc' = [wpc EXCEPT ![w] = "run"]
               /\ wtask' = [wtask EXCEPT ![w] = t]
          ELSE /\ pc' = IF t # 0 THEN [pc EXCEPT ![t] = "dropped"] ELSE pc
               /\ wpc' = [wpc EXCEPT ![w] = "ret"]
               /\ wtask' = [wtask EXCEPT ![w] = 0]
    /\ UNCHANGED <<execVars, semaphore, isShutdown, workers, fn, handle, waiters,
                   histVars>>

\* the worker promise of w is fulfilled: its finally callback runs
\* this.workers.delete(workerPromise), then the reactions of the Promise.all
\* calls registered on it afterwards.
WorkerRetire(w) ==
    /\ wpc[w] = "ret"
    /\ workers' = workers \ {w}
    /\ wpc' = [wpc EXCEPT ![w] = "gone"]
    /\ waiters' = {snap \ {w} : snap \in waiters}
    /\ UNCHANGED <<execVars, semaphore, isShutdown, queue, wtask, pc, fn, handle,
                   histVars>>

\* --------------------------------------------------------------- shutdown
\* shutdown(wait): set the flag; with wait, await Promise.all over a snapshot
\* of the worker set.
Shutdown(wait) ==
    /\ isShutdown' = TRUE
    /\ IF wait
       THEN /\ waiters' = waiters \cup {workers}
            /\ shutQueued' = shutQueued \cup {queue[k] : k \in 1..Len(queue)}
       ELSE UNCHANGED <<waiters, shutQueued>>
    /\ UNCHANGED <<execVars, semaphore, queue, workers, wpc, wtask, pc, fn,
                   handle, qseq, qcount, waitResolved>>

\* Promise.all(snapshot) is fulfilled once every worker promise of the snapshot
\* is.
SnapshotSettledNoWait(snap) == TRUE

SnapshotSettled(snap) == snap = {}

ShutdownResolve(snap) ==
    /\ snap \in waiters
    /\ SnapshotSettled(snap)
    /\ waiters' = waiters \ {snap}
    /\ waitResolved' = TRUE
    /\ UNCHANGED <<execVars, semaphore, isShutdown, queue, workers, wpc, wtask,
                   pc, fn, handle, qseq, qcount, shutQueued>>

\* ---------------------------------------------------------- specification
\* the executor alone: the request variables stay as they are
Next ==
    \/ \E i \in Items : SubmitCall(i) /\ UNCHANGED <<reqVars, clientVars, dataVars>>
    \/ \E i \in Items : Poll(i) /\ UNCHANGED <<reqVars, clientVars, dataVars>>
    \/ \E i \in Items : Place(i) /\ UNCHANGED <<reqVars, clientVars, dataVars>>
    \/ \E i \in Items, r \in {"returns", "throws"} :
          TaskFinish(i, r) /\ UNCHANGED <<reqVars, clientVars, dataVars>>
    \/ \E w \in Items : WorkerNext(w) /\ UNCHANGED <<reqVars, clientVars, dataVars>>
    \/ \E w \in Items : WorkerRetire(w) /\ UNCHANGED <<reqVars, clientVars, dataVars>>
    \/ \E wait \in BOOLEAN : Shutdown(wait) /\ UNCHANGED <<reqVars, clientVars, dataVars>>
    \/ \E snap \in SUBSET Items :
          ShutdownResolve(snap) /\ UNCHANGED <<reqVars, clientVars, dataVars>>

Spec == Init /\ [][Next]_vars

\* Steps the event loop itself schedules (timers, promise reactions) and the
\* completion of a running function; submit() and shutdown() calls are the
\* caller's and carry no fairness.
Progress ==
    /\ UNCHANGED <<reqVars, clientVars, dataVars>>
    /\ \/ \E i \in Items : Poll(i)
       \/ \E i \in Items : Place(i)
       \/ \E i \in Items, r \in {"returns", "throws"} : TaskFinish(i, r)
       \/ \E w \in Items : WorkerNext(w)
       \/ \E w \in Items : WorkerRetire(w)
       \/ \E snap \in SUBSET Items : ShutdownResolve(snap)

FairSpec == Spec /\ WF_vars(Progress)

\* ------------------------------------------------------------ error classes
\* utils/errors: the class each error class extends
Extends(c) ==
    CASE c \in {"DatasetNotFoundError", "DatasetAuthError",
                "DatasetValidationError", "RateLimitError", "ServerError",
                "ServiceUnavailableError"} -> "DatasetError"
      [] c \in {"DatasetError", "InvalidAuthError", "TemplateNotFound",
                "TemplateAlreadyExists"} -> "SDKException"
      [] c \in {"SDKException", "AxiosError"} -> "Error"
      [] OTHER -> "Object"

\* `e instanceof k` for an error e of class c
RECURSIVE InstanceOf(_, _)
InstanceOf(c, k) == c = k \/ (c # "Object" /\ InstanceOf(Extends(c), k))

\* getErrorCode() of an error of class c ("none": the class has no such
\* method, as Error and AxiosError)
ErrorCode(c) ==
    CASE c = "SDKException" -> "UNKNOWN_SDK_ERROR"
      [] c = "DatasetError" -> "DATASET_OPERATION_INVALID"
      [] c = "DatasetNotFoundError" -> "DATASET_NOT_FOUND"
      [] c = "DatasetAuthError" -> "DATASET_AUTH_ERROR"
      [] c = "DatasetValidationError" -> "DATASET_VALIDATION_ERROR"
      [] c = "RateLimitError" -> "RATE_LIMIT_EXCEEDED"
      [] c = "ServerError" -> "SERVER_ERROR"
      [] c = "ServiceUnavailableError" -> "SERVICE_UNAVAILABLE"
      [] c = "InvalidAuthError" -> "INVALID_FI_CLIENT_AUTHENTICATION"
      [] c = "TemplateNotFound" -> "TEMPLATE_NOT_FOUND"
      [] c = "TemplateAlreadyExists" -> "TEMPLATE_ALREADY_EXISTS"
      [] OTHER -> "none"

\* ------------------------------------------------------ response handlers
\* ResponseHandler._handleError (the default classifier): the class of the
\* error it throws; `response?.status || 500` (st = 0: no response)
DefaultHandleErrorByAttempt(st) ==
    IF rAttempt = 0 THEN "ServerError" ELSE "Error"

DefaultHandleError(st) ==
    LET status == IF st = 0 THEN 500 ELSE st IN
    CASE status \in {401, 403} -> "InvalidAuthError"
      [] status = 404 -> "DatasetNotFoundError"
      [] status = 429 -> "RateLimitError"
      [] status = 503 -> "ServiceUnavailableError"
      [] status \in {500, 502, 504} -> "ServerError"
      [] OTHER -> "Error"

\* DatasetResponseHandler._handleError
DatasetHandleError(st) ==
    LET ErrorClass ==
            CASE st = 400 -> "DatasetValidationError"
              [] st \in {401, 403} -> "DatasetAuthError"
              [] st = 404 -> "DatasetNotFoundError"
              [] st = 429 -> "RateLimitError"
              [] st = 500 -> "ServerError"
              [] st = 503 -> "ServiceUnavailableError"
              [] OTHER -> "DatasetError"
    IN  IF st > 500 /\ st < 600 /\ ErrorClass = "DatasetError"
        THEN "ServerError"
        ELSE ErrorClass

\* EvalInfoResponseHandler._handleError
EvalInfoHandleError(st) ==
    IF st = 403 \/ st = 401 THEN "DatasetAuthError" ELSE "DatasetError"

\* KBResponseHandler._handleError
KBHandleError(st) == IF st = 403 THEN "InvalidAuthError" ELSE "SDKException"

\* SimpleJsonResponseHandler._handleError
SimpleJsonHandleError(st) ==
    IF st = 403 THEN "InvalidAuthError"
    ELSE IF st = 404 THEN "TemplateNotFound"
    ELSE DefaultHandleError(st)

\* PromptResponseHandler._handleError
PromptHandleError(st, body) ==
    IF st = 403 THEN "InvalidAuthError"
    ELSE IF st = 404 THEN "TemplateNotFound"
    ELSE IF st = 400
         THEN IF body = "tplNotFound" THEN "TemplateNotFound"
              ELSE IF body = "tplExists" THEN "TemplateAlreadyExists"
              ELSE "SDKException"
    ELSE DefaultHandleError(st)

\* ProviderAPIKeyResponseHandler._handleError
ProviderKeyHandleError(st) == "Error"

\* handlerClass._handleError(response): every one of them throws
HandleError(h, o) ==
    CASE h = "dataset" -> DatasetHandleError(o.st)
      [] h = "evalInfo" -> EvalInfoHandleError(o.st)
      [] h = "kb" -> KBHandleError(o.st)
      [] h = "simpleJson" -> SimpleJsonHandleError(o.st)
      [] h = "prompt" -> PromptHandleError(o.st, o.body)
      [] h = "providerKey" -> ProviderKeyHandleError(o.st)
      [] OTHER -> DefaultHandleError(o.st)

\* handlerClass._parseSuccess(response): the class of the error it throws, or
\* "none" when it returns a value
ParseSuccessError(h, o) ==
    CASE h = "dataset" /\ o.body = "noDatasets" -> "DatasetNotFoundError"
      [] h = "dataset" /\ o.body = "statusFalse" -> "Error"
      [] h = "evalInfo" /\ o.body = "statusFalse" -> "DatasetError"
      [] h = "kb" /\ o.body = "statusFalse" -> "SDKException"
      [] h = "prompt" /\ o.body = "statusFalse" -> "SDKException"
      [] OTHER -> "none"

ParseSuccess(h, o) ==
    IF ParseSuccessError(h, o) # "none"
    THEN [t |-> "error", v |-> ParseSuccessError(h, o), via |-> "parseSuccess"]
    ELSE [t |-> "value", v |-> h, via |-> "parseSuccess"]

\* the dispatcher's test `!response || response.status !== 200`
IsErrorStatusNever(st) == FALSE

IsErrorStatus(st) == st # 200

\* ResponseHandler.parse(response, handlerClass)
Parse(h, o) ==
    IF IsErrorStatus(o.st)
    THEN [t |-> "error", v |-> HandleError(h, o), via |-> "handleError"]
    ELSE ParseSuccess(h, o)

\* ------------------------------------------------------- HttpClient.request
\* `config.retry_attempts || this._defaultRetryAttempts` (0: absent)
RetryAttempts(cfg) == IF cfg = 0 THEN DefaultRetryAttempts ELSE cfg

\* `config.retry_delay || this._defaultRetryDelay` (0: absent)
RetryDelay(cfg) == IF cfg = 0 THEN DefaultRetryDelay ELSE cfg

\* the try block of one loop pass, the transport call having ended with o
TryBlock(h, o) ==
    IF o.k = "axios"
    THEN [t |-> "error", v |-> "AxiosError", via |-> "transport"]
    ELSE IF h # "none" THEN Parse(h, o)
    ELSE IF o.st >= 400
    THEN [t |-> "error", v |-> DefaultHandleError(o.st), via |-> "defaultHandleError"]
    ELSE [t |-> "response", v |-> "none", via |-> "none"]

\* "Don't retry certain errors": the first test of the catch block
NonRetryableNotFoundOnly(c, o) == InstanceOf(c, "DatasetNotFoundError")

NonRetryableAuthOnly(c, o) ==
    \/ InstanceOf(c, "InvalidAuthError")
    \/ (InstanceOf(c, "AxiosError") /\ o.st = 401)

NonRetryable(c, o) ==
    \/ InstanceOf(c, "DatasetNotFoundError")
    \/ InstanceOf(c, "InvalidAuthError")
    \/ (InstanceOf(c, "AxiosError") /\ o.st = 401)

\* `attempt === retryAttempts - 1`
LastAttemptNever(a, n) == a = n

LastAttempt(a, n) == a = n - 1

\* `retryDelay * Math.pow(2, attempt)`
BackoffFixed(d, a) == d

Backoff(d, a) == d * 2^a

\* the catch block for the caught error e: rethrow, classify and throw, or
\* sleep before the next pass
CatchBlock(e, o, a, n) ==
    IF NonRetryable(e.v, o) THEN [act |-> "throw", res |-> e]
    ELSE IF LastAttempt(a, n)
    THEN IF InstanceOf(e.v, "AxiosError")
         THEN [act |-> "throw",
               res |-> [t |-> "error", v |-> DefaultHandleError(o.st),
                        via |-> "defaultHandleError"]]
         ELSE [act |-> "throw", res |-> e]
    ELSE [act |-> "sleep", res |-> e]

\* one pass of the loop body from the end of the transport call
LoopBody(h, o, a, n) ==
    LET r == TryBlock(h, o) IN
    IF r.t = "error" THEN CatchBlock(r, o, a, n)
    ELSE [act |-> "return", res |-> r]

\* request() as the executor invokes its function: the loop is entered with
\* attempt 0 and the first transport call is pending
ReqInit ==
    /\ ExecInit
    /\ bound = MaxBound /\ maxWorkers = MaxWorkersCap
    /\ NoClient
    /\ NoDataset
    /\ rHandler \in Handlers
    /\ rBudget \in {RetryAttempts(cfg) : cfg \in 0..MaxCfgAttempts}
    /\ rDelay \in {RetryDelay(cfg) : cfg \in 0..MaxCfgDelay}
    /\ rAttempt = 0
    /\ rpc = "call"
    /\ rResult = NoResult
    /\ rCalls = 0
    /\ rDelays = <<>>
    /\ rLast = NoOutcome
    /\ rSame = TRUE

\* the transport call ends with outcome o and the rest of the loop body runs,
\* up to the return, the throw or the `await this._sleep(...)`
TransportReturns(o) ==
    /\ rpc = "call"
    /\ LET s == LoopBody(rHandler, o, rAttempt, rBudget) IN
       /\ rResult' = s.res
       /\ rpc' = (CASE s.act = "return" -> "returned"
                    [] s.act = "throw" -> "threw"
                    [] OTHER -> "sleep")
       /\ rDelays' = IF s.act = "sleep"
                     THEN Append(rDelays, Backoff(rDelay, rAttempt))
                     ELSE rDelays
    /\ rCalls' = rCalls + 1
    /\ rLast' = o
    /\ rSame' = (rCalls = 0 \/ (rSame /\ rLast = o))
    /\ UNCHANGED <<rHandler, rBudget, rDelay, rAttempt>>

\* the backoff timer fires: attempt++, the loop test, and either the next
\* transport call or the throw after the loop
BackoffElapsed ==
    /\ rpc = "sleep"
    /\ rAttempt' = rAttempt + 1
    /\ IF rAttempt + 1 < rBudget
       THEN /\ rpc' = "call"
            /\ UNCHANGED rResult
       ELSE /\ rpc' = "threw"
            /\ rResult' = [t |-> "error", v |-> "Error", via |-> "loopEnd"]
    /\ UNCHANGED <<rHandler, rBudget, rDelay, rCalls, rDelays, rLast, rSame>>

execAllVars == <<bound, maxWorkers, semaphore, isShutdown, queue, workers, wpc,
                 wtask, pc, fn, handle, waiters, qseq, qcount, shutQueued,
                 waitResolved>>

ReqNext ==
    \/ \E o \in Outcomes : TransportReturns(o) /\ UNCHANGED <<execAllVars, clientVars, dataVars>>
    \/ BackoffElapsed /\ UNCHANGED <<execAllVars, clientVars, dataVars>>

ReqSpec == ReqInit /\ [][ReqNext]_vars

\* ------------------------------------------------------------ one client
\* HttpClient: its executor is built with `config.maxQueue || MAX_QUEUE` and
\* `config.maxWorkers || MAX_WORKERS`, so bound is never 0; every request() is
\* one submit() whose function is the attempt loop, here with the client's
\* default budget; close() is shutdown(true).
ClientInit ==
    /\ ExecInit
    /\ bound >= 1
    /\ NoRequest
    /\ NoClient
    /\ NoDataset

\* how a loop pass can end at attempt a with budget n, over the interpreters
\* and transport outcomes
LoopActs(a, n) == {LoopBody(h, o, a, n).act : h \in Handlers, o \in Outcomes}

ClientLoopActs ==
    [a \in 0..(DefaultRetryAttempts - 1) |-> LoopActs(a, DefaultRetryAttempts)]

\* a task invoked in this step runs its function up to the first transport
\* call
FunctionsInvoked ==
    /\ cPhase' = [j \in Items |->
                    IF pc[j] # "running" /\ pc'[j] = "running" THEN "call"
                    ELSE cPhase[j]]
    /\ UNCHANGED cAttempt

\* the admission counter while the function sleeps between two attempts: the
\* unit is released by the task's finally block only
SemaphoreReleasedForBackoff == semaphore + 1

SemaphoreDuringBackoff == semaphore

\* the transport call of item i's function ends and the loop body returns,
\* throws (either ends the task) or goes to sleep
AttemptReturns(i, act) ==
    /\ pc[i] = "running"
    /\ cPhase[i] = "call"
    /\ act \in ClientLoopActs[cAttempt[i]]
    /\ IF act = "sleep"
       THEN /\ cPhase' = [cPhase EXCEPT ![i] = "sleep"]
            /\ UNCHANGED cAttempt
            /\ semaphore' = SemaphoreDuringBackoff
            /\ UNCHANGED <<execVars, isShutdown, queue, workers, wpc, wtask, pc,
                           fn, handle, waiters, histVars>>
       ELSE /\ TaskFinish(i, IF act = "return" THEN "returns" ELSE "throws")
            /\ cPhase' = [cPhase EXCEPT ![i] = "ended"]
            /\ cAttempt' = [cAttempt EXCEPT ![i] = 0]
    /\ UNCHANGED <<reqVars, dataVars>>

\* the backoff timer of item i's function fires: attempt++, the loop test, and
\* the next transport call or the throw after the loop
ClientBackoffElapsed(i) ==
    /\ pc[i] = "running"
    /\ cPhase[i] = "sleep"
    /\ cAttempt' = [cAttempt EXCEPT ![i] = cAttempt[i] + 1]
    /\ IF cAttempt[i] + 1 < DefaultRetryAttempts
       THEN /\ cPhase' = [cPhase EXCEPT ![i] = "call"]
            /\ UNCHANGED execAllVars
       ELSE /\ TaskFinish(i, "throws")
            /\ cPhase' = [cPhase EXCEPT ![i] = "ended"]
    /\ UNCHANGED <<reqVars, dataVars>>

ClientNext ==
    \/ \E i \in Items : SubmitCall(i) /\ UNCHANGED <<reqVars, clientVars, dataVars>>
    \/ \E i \in Items : Poll(i) /\ UNCHANGED <<reqVars, clientVars, dataVars>>
    \/ \E i \in Items : Place(i) /\ FunctionsInvoked /\ UNCHANGED <<reqVars, dataVars>>
    \/ \E i \in Items, act \in {"return", "throw", "sleep"} : AttemptReturns(i, act)
    \/ \E i \in Items : ClientBackoffElapsed(i)
    \/ \E w \in Items : WorkerNext(w) /\ FunctionsInvoked /\ UNCHANGED <<reqVars, dataVars>>
    \/ \E w \in Items : WorkerRetire(w) /\ UNCHANGED <<reqVars, clientVars, dataVars>>
    \/ Shutdown(TRUE) /\ UNCHANGED <<reqVars, clientVars, dataVars>>
    \/ \E snap \in SUBSET Items :
          ShutdownResolve(snap) /\ UNCHANGED <<reqVars, clientVars, dataVars>>

ClientSpec == ClientInit /\ [][ClientNext]_vars

\* -------------------------------------------------------------- Dataset
\* One Dataset instance.  A method runs synchronously up to the request it
\* awaits; its continuation is a separate step, so calls may overlap.  The
\* config is "null", set without an id ("noId") or set with one ("withId").

\* create(): `!this._datasetConfig` or `this._datasetConfig.id` throws
CreateRejectsNoIdCheck(cfg) == cfg = "null"

CreateRejects(cfg) == cfg = "null" \/ cfg = "withId"

\* delete(), addColumns(): `!this._datasetConfig?.id` throws
NeedsId(cfg) == cfg # "withId"

\* download(): `!this._datasetConfig?.name`, then `!this._datasetConfig.id`
DownloadRejects(cfg) == cfg = "null" \/ cfg # "withId"

\* getConfig(): `!this._datasetConfig` throws
GetConfigRejects(cfg) == cfg = "null"

\* delete() after its request: `this._datasetConfig = null`
ConfigAfterDeleteKept(cfg) == cfg

ConfigAfterDelete(cfg) == "null"

\* create() after its request: `{...this._datasetConfig, id: responseConfig.id,
\* ...}`; hasId: the response carried an id
ConfigAfterCreate(cfg, hasId) == IF hasId THEN "withId" ELSE "noId"

\* constructor, with or without datasetConfig
DatasetInit ==
    /\ ExecInit
    /\ bound = MaxBound /\ maxWorkers = MaxWorkersCap
    /\ NoRequest
    /\ NoClient
    /\ dConfig \in {"null", "noId", "withId"}
    /\ dPending = [m \in RequestMethods |-> 0]
    /\ dLast = NoEvent

\* a caller replaces the config (`instance._datasetConfig = config`, as the
\* static helpers do)
SetConfig(cfg) ==
    /\ dConfig' = cfg
    /\ dLast' = [op |-> "setConfig", res |-> "set", cfg |-> dConfig,
                 src |-> "setConfig"]
    /\ UNCHANGED dPending

\* the synchronous part of method m: throw DatasetError, or issue the request
CallRequestMethod(m, rejects) ==
    IF rejects
    THEN /\ dLast' = [op |-> m, res |-> "DatasetError", cfg |-> dConfig,
                      src |-> dLast.src]
         /\ UNCHANGED <<dConfig, dPending>>
    ELSE /\ dPending[m] < MaxPending
         /\ dPending' = [dPending EXCEPT ![m] = dPending[m] + 1]
         /\ dLast' = [op |-> m, res |-> "requested", cfg |-> dConfig,
                      src |-> dLast.src]
         /\ UNCHANGED dConfig

CallCreate == CallRequestMethod("create", CreateRejects(dConfig))

CallDelete == CallRequestMethod("delete", NeedsId(dConfig))

CallDownload == CallRequestMethod("download", DownloadRejects(dConfig))

\* addColumns(columns): the id test, then the test for an empty list
CallAddColumns(empty) ==
    IF ~NeedsId(dConfig) /\ empty
    THEN /\ dLast' = [op |-> "addColumns", res |-> "DatasetValidationError",
                      cfg |-> dConfig, src |-> dLast.src]
         /\ UNCHANGED <<dConfig, dPending>>
    ELSE CallRequestMethod("addColumns", NeedsId(dConfig))

CallGetConfig ==
    /\ dLast' = [op |-> "getConfig",
                 res |-> IF GetConfigRejects(dConfig) THEN "DatasetError"
                         ELSE "returned",
                 cfg |-> dConfig, src |-> dLast.src]
    /\ UNCHANGED <<dConfig, dPending>>

\* the request of a pending call of m ends; res: "ok" (for create "okWithId"
\* or "okNoId") or "failed" (the request threw, the method rethrows)
RequestDone(m, res) ==
    /\ dPending[m] > 0
    /\ dPending' = [dPending EXCEPT ![m] = dPending[m] - 1]
    /\ dLast' = [op |-> m, res |-> res, cfg |-> dConfig,
                 src |-> IF m \in {"create", "delete"} /\ res # "failed" THEN m
                         ELSE dLast.src]
    /\ dConfig' = (CASE m = "create" /\ res = "okWithId" -> ConfigAfterCreate(dConfig, TRUE)
                     [] m = "create" /\ res = "okNoId" -> ConfigAfterCreate(dConfig, FALSE)
                     [] m = "delete" /\ res = "ok" -> ConfigAfterDelete(dConfig)
                     [] OTHER -> dConfig)

Results(m) == IF m = "create" THEN {"okWithId", "okNoId", "failed"} ELSE {"ok", "failed"}

DatasetNext ==
    \/ \E cfg \in {"noId", "withId"} :
          SetConfig(cfg) /\ UNCHANGED <<execAllVars, reqVars, clientVars>>
    \/ CallCreate /\ UNCHANGED <<execAllVars, reqVars, clientVars>>
    \/ CallDelete /\ UNCHANGED <<execAllVars, reqVars, clientVars>>
    \/ CallDownload /\ UNCHANGED <<execAllVars, reqVars, clientVars>>
    \/ \E empty \in BOOLEAN :
          CallAddColumns(empty) /\ UNCHANGED <<execAllVars, reqVars, clientVars>>
    \/ CallGetConfig /\ UNCHANGED <<execAllVars, reqVars, clientVars>>
    \/ \E m \in RequestMethods : \E res \in Results(m) :
          RequestDone(m, res) /\ UNCHANGED <<execAllVars, reqVars, clientVars>>

DatasetSpec == DatasetInit /\ [][DatasetNext]_vars

\* ------------------------------------------------------------- properties
\* the item holds an admission unit it has not released
HoldsUnit(i) == pc[i] \in {"admitted", "queued", "running", "dropped"}

\* the item's function has been invoked
Started(i) == pc[i] \in {"running", "done"}

\* C1: the worker set, and the number of workers executing a work item, never
\* exceed maxWorkers.
C1_WorkersBounded ==
    /\ Cardinality(workers) <= maxWorkers
    /\ Cardinality({w \in Items : wpc[w] = "run"}) <= maxWorkers
    /\ Cardinality({i \in Items : pc[i] = "running"}) <= maxWorkers

C1_Witness ==
    /\ maxWorkers = 2
    /\ Cardinality({w \in workers : wpc[w] = "run"}) = 2
    /\ queue # <<>>

\* C2: the admission counter never goes below zero, and the work items that
\* were admitted and have not completed never number more than
\* bound + maxWorkers.
C2_AdmittedBounded ==
    /\ semaphore >= 0
    /\ Cardinality({i \in Items : HoldsUnit(i)}) <= bound + maxWorkers

C2_Witness ==
    /\ semaphore = 0
    /\ Cardinality({i \in Items : pc[i] \in {"queued", "running"}}) = bound + maxWorkers
    /\ Cardinality({i \in Items : pc[i] = "polling"}) >= 2

\* C3: while the executor is not shut down, every work item appended to the
\* queue eventually starts running.
C3_QueuedEventuallyStarts ==
    \A i \in Items : (pc[i] = "queued") ~> (pc[i] = "running" \/ isShutdown)

\* C4: of two work items that were both pushed on the queue, the one pushed
\* later has not started unless the one pushed earlier has.
C4_QueueFifo ==
    \A a, b \in Items :
        (qseq[a] > 0 /\ qseq[a] < qseq[b] /\ Started(b)) => Started(a)

C4_Witness ==
    \E a, b \in Items :
        /\ qseq[a] > 0 /\ qseq[a] < qseq[b]
        /\ pc[a] = "done" /\ pc[b] = "running"

\* C5: once every shutdown(true) call has resolved, each work item that was
\* waiting in the queue when shutdown(true) was called has been run and its
\* handle settled.
C5_WaitShutdownDrainsQueue ==
    (waitResolved /\ waiters = {}) =>
        \A i \in shutQueued : handle[i] \in {"resolved", "rejected"}

\* C6: after a shutdown(true) call has resolved, no work item's function is
\* executing.
C6_NoRunningAfterWaitShutdown ==
    waitResolved => \A i \in Items : pc[i] # "running" /\ wpc[i] # "run"

C6_Witness ==
    /\ waitResolved
    /\ \E i \in Items : pc[i] = "done"
    /\ \E j \in Items : pc[j] = "dropped" /\ j \in workers

\* C7: a submit call made after shutdown is rejected at once with the shutdown
\* error; it takes no admission unit and neither starts nor queues anything,
\* and it stays rejected.
C7_SubmitAfterShutdownRejected ==
    [][\A i \in Items :
        /\ (isShutdown /\ pc[i] = "idle" /\ pc'[i] # "idle") =>
              /\ pc'[i] = "rejected"
              /\ handle'[i] = "shutdownError"
              /\ semaphore' = semaphore
              /\ queue' = queue
              /\ workers' = workers
        /\ pc[i] = "rejected" => (pc'[i] = "rejected" /\ handle'[i] = "shutdownError")
      ]_vars

C7_Witness ==
    /\ isShutdown
    /\ \E i \in Items : pc[i] = "rejected" /\ handle[i] = "shutdownError"
    /\ \E j \in Items : pc[j] = "running"

\* C8: when a function throws, only its own handle is rejected: no other
\* item, the queue and the worker set are untouched, the worker that ran it
\* goes on to the next loop pass and, the executor not being shut down, starts
\* the head of the queue; a function that returns resolves its handle.
C8_FailureIsolated ==
    [][/\ \A i \in Items :
            (pc[i] = "running" /\ pc'[i] = "done") =>
                /\ handle'[i] = (IF fn'[i] = "throws" THEN "rejected" ELSE "resolved")
                /\ \A j \in Items \ {i} : handle'[j] = handle[j] /\ pc'[j] = pc[j]
                /\ queue' = queue /\ workers' = workers /\ isShutdown' = isShutdown
                /\ \A w \in Items :
                      (wpc[w] = "run" /\ wtask[w] = i) => wpc'[w] = "next"
       /\ \A w \in Items :
            (/\ wpc[w] = "next" /\ wpc'[w] # "next"
             /\ fn[wtask[w]] = "throws"
             /\ queue # <<>> /\ ~isShutdown) =>
                /\ pc'[Head(queue)] = "running"
                /\ wpc'[w] = "run" /\ wtask'[w] = Head(queue)
      ]_vars

\* the worker started for item i, whose function threw, has since dequeued
\* and finished item j, whose function returned
C8_Witness ==
    \E i, j \in Items :
        /\ i # j
        /\ pc[i] = "done" /\ fn[i] = "throws" /\ handle[i] = "rejected"
        /\ wpc[i] = "next" /\ wtask[i] = j /\ qseq[j] > 0
        /\ handle[j] = "resolved"
        /\ \A k \in Items \ {i, j} : pc[k] \notin {"running", "done", "dropped"}

\* C9: every finished work item, whether its function returned or threw, has
\* given its admission unit back exactly once: the counter is the budget less
\* the units of the items that are admitted and not finished.
C9_UnitReleasedOnFinish ==
    semaphore = bound + maxWorkers - Cardinality({i \in Items : HoldsUnit(i)})

C9_Witness ==
    /\ \E i \in Items : pc[i] = "done" /\ fn[i] = "throws"
    /\ \E i \in Items : pc[i] = "done" /\ fn[i] = "returns"
    /\ semaphore = bound + maxWorkers

\* C10: a submit call that finds the counter exhausted is parked, not
\* rejected; a parked call only ever leaves by acquiring a unit, which happens
\* only after another work item has finished; and with bound = 0 and
\* maxWorkers = 2 the third submitted item has started only if one of the
\* first two has finished.
C10_SaturatedSubmitWaits ==
    [][/\ \A i \in Items :
            /\ (semaphore <= 0 /\ ~isShutdown /\ pc[i] = "idle" /\ pc'[i] # "idle") =>
                  (pc'[i] = "polling" /\ handle'[i] = "pending")
            /\ pc[i] = "polling" =>
                  (pc'[i] \in {"polling", "admitted"} /\ handle'[i] = "pending")
            /\ (pc[i] = "polling" /\ pc'[i] = "admitted") =>
                  (semaphore > 0 /\ \E j \in Items \ {i} : pc[j] = "done")
       /\ (bound' = 0 /\ maxWorkers' = 2 /\ pc'[3] \in {"running", "done"}) =>
            (pc'[1] = "done" \/ pc'[2] = "done")
      ]_vars

C10_Witness ==
    /\ bound = 0 /\ maxWorkers = 2
    /\ pc[1] = "done" /\ pc[2] = "running" /\ pc[3] = "running"
    /\ ~isShutdown

\* C11: a work item whose function is executing is never abandoned, shutdown
\* or not: it stays running until its function ends, and the step that ends
\* it settles its handle and gives its admission unit back.
C11_RunningNotAbandoned ==
    [][\A i \in Items :
        pc[i] = "running" =>
            /\ pc'[i] \in {"running", "done"}
            /\ pc'[i] = "running" => handle'[i] = "pending"
            /\ pc'[i] = "done" =>
                  /\ handle'[i] \in {"resolved", "rejected"}
                  /\ semaphore' = semaphore + 1
      ]_vars

\* no function is invoked once the flag is set, so an item running in a
\* shut-down executor was executing when shutdown was requested; here a
\* shutdown(true) call is waiting for its worker while another item is queued
C11_Witness ==
    \E i \in Items :
        /\ isShutdown
        /\ pc[i] = "running" /\ handle[i] = "pending"
        /\ \E snap \in waiters : \E w \in snap : wpc[w] = "run" /\ wtask[w] = i
        /\ queue # <<>>

\* C12: with an attempt budget of 3, a request that returns at its third
\* transport call (the first two having failed with a retryable outcome) returns
\* a success result, has slept baseDelay and then baseDelay*2, and does
\* nothing after it has returned.
C12_FailTwiceThenSucceed ==
    [][/\ (rpc' = "returned" /\ rBudget' = 3 /\ rCalls' = 3) =>
             /\ rResult'.t \in {"value", "response"}
             /\ rDelays' = <<rDelay', rDelay' * 2>>
             /\ rAttempt' = 2
       /\ rpc = "returned" => UNCHANGED reqVars
      ]_vars

C12_Witness ==
    /\ rpc = "returned" /\ rBudget = 3 /\ rCalls = 3
    /\ rResult.t = "value"
    /\ rDelays = <<1000, 2000>>
    /\ ~rSame

\* C13: a request whose transport calls all return the same retryable error
\* status (429, 500 or 503; any interpreter or none) never returns, makes
\* exactly as many transport calls as its attempt budget, sleeps once between
\* two calls and not after the last, and then throws the error its classifier
\* gives for the status: ServerError for 500 and ServiceUnavailableError for
\* 503 with the default classifier.
C13_RetryableStatusExhaustsBudget ==
    (rCalls >= 1 /\ rSame /\ rLast.k = "resp" /\ rLast.st \in {429, 500, 503}) =>
        /\ rpc \in {"call", "sleep", "threw"}
        /\ rCalls <= rBudget
        /\ rpc = "call" => (rCalls < rBudget /\ Len(rDelays) = rCalls)
        /\ rpc = "sleep" => (rCalls < rBudget /\ Len(rDelays) = rCalls)
        /\ rpc = "threw" =>
              /\ rCalls = rBudget
              /\ Len(rDelays) = rBudget - 1
              /\ rResult.t = "error"
              /\ rResult.v = HandleError(rHandler, rLast)
              /\ (rHandler = "none" /\ rLast.st = 500) => rResult.v = "ServerError"
              /\ (rHandler = "none" /\ rLast.st = 503) =>
                    rResult.v = "ServiceUnavailableError"

C13_Witness ==
    /\ rHandler = "none" /\ rBudget = 3
    /\ rSame /\ rLast.k = "resp" /\ rLast.st = 500
    /\ rpc = "threw" /\ rCalls = 3 /\ Len(rDelays) = 2
    /\ rResult.v = "ServerError"

\* C14: without an interpreter, a response with status 401 ends the request at
\* once with InvalidAuthError, whatever the attempt budget: no sleep follows
\* it, and when it answers the first transport call that call is the only one.
C14_Unauthorized401NotRetried ==
    (rHandler = "none" /\ rLast.k = "resp" /\ rLast.st = 401) =>
        /\ rpc = "threw"
        /\ rResult.t = "error" /\ rResult.v = "InvalidAuthError"
        /\ Len(rDelays) = rCalls - 1
        /\ rSame => (rCalls = 1 /\ rDelays = <<>>)

C14_Witness ==
    /\ rHandler = "none" /\ rBudget = 3
    /\ rLast.k = "resp" /\ rLast.st = 401
    /\ rpc = "threw" /\ rCalls = 1 /\ rDelays = <<>>
    /\ rResult.v = "InvalidAuthError"

\* C15: whichever interpreter is passed (dataset, knowledge-base, prompt,
\* simple-JSON, provider-key, or none), a request whose first response has
\* status 401 or 403 fails after that one transport call.
C15_AuthFailureNeverRetried ==
    (/\ rHandler \in {"none", "dataset", "kb", "prompt", "simpleJson", "providerKey"}
     /\ rCalls >= 1 /\ rSame
     /\ rLast.k = "resp" /\ rLast.st \in {401, 403}) =>
        (rpc = "threw" /\ rCalls = 1 /\ rDelays = <<>>)

\* C16: a request whose interpreter's _parseSuccess throws for the first
\* response, which has the success status, fails with that error after that
\* one transport call and without any sleep.
C16_ParseSuccessErrorNotRetried ==
    (/\ rCalls >= 1 /\ rSame
     /\ rLast.k = "resp" /\ ~IsErrorStatus(rLast.st)
     /\ rResult.via = "parseSuccess" /\ rResult.t = "error") =>
        (rpc = "threw" /\ rCalls = 1 /\ rDelays = <<>>)

\* C17: without an interpreter, a response with status 404 ends the request at
\* once with DatasetNotFoundError: no sleep follows it, and when it answers
\* the first transport call that call is the only one.
C17_NotFound404NotRetried ==
    (rHandler = "none" /\ rLast.k = "resp" /\ rLast.st = 404) =>
        /\ rpc = "threw"
        /\ rResult.t = "error" /\ rResult.v = "DatasetNotFoundError"
        /\ Len(rDelays) = rCalls - 1
        /\ rSame => (rCalls = 1 /\ rDelays = <<>>)

C17_Witness ==
    /\ rHandler = "none" /\ rBudget = 3
    /\ rLast.k = "resp" /\ rLast.st = 404
    /\ rpc = "threw" /\ rCalls = 1 /\ rDelays = <<>>
    /\ rResult.v = "DatasetNotFoundError"

InFlight == {i \in Items : cPhase[i] = "call"}

\* C18: a request takes its admission unit once, before its first attempt,
\* keeps it through all its attempts and sleeps, none of which touches the
\* counter, and gives it back once, in the step that ends its last attempt; at
\* every moment the counter is the budget less one unit per admitted and
\* unfinished request, however many attempts each has made.
C18_OneUnitPerRequest ==
    [][/\ \A i \in Items :
            /\ (pc[i] \in {"idle", "polling"} /\ pc'[i] = "admitted") =>
                  (semaphore' = semaphore - 1 /\ cPhase[i] = "none")
            /\ pc[i] \in {"admitted", "queued", "running", "done", "dropped"} =>
                  pc'[i] \notin {"idle", "polling", "admitted"} \/ pc'[i] = pc[i]
            /\ (cPhase[i] \in {"call", "sleep"} /\ cPhase'[i] \in {"call", "sleep"}) =>
                  /\ pc[i] = "running" /\ pc'[i] = "running"
                  /\ (cPhase'[i] # cPhase[i]) => semaphore' = semaphore
            /\ (cPhase[i] \in {"call", "sleep"} /\ cPhase'[i] = "ended") =>
                  (semaphore' = semaphore + 1 /\ pc'[i] = "done")
            /\ cPhase[i] = "ended" => (cPhase'[i] = "ended" /\ pc'[i] = "done")
       /\ semaphore' = bound' + maxWorkers'
                         - Cardinality({i \in Items : HoldsUnit(i)'})
      ]_vars

\* one request has ended and given its unit back while another, which has
\* kept its unit through two sleeps, waits for its third transport call
C18_Witness ==
    \E i, j \in Items :
        /\ pc[i] = "done" /\ cPhase[i] = "ended"
        /\ pc[j] = "running" /\ cPhase[j] = "call" /\ cAttempt[j] = 2
        /\ \A k \in Items \ {i, j} : pc[k] = "idle"
        /\ semaphore = bound + maxWorkers - 1

\* C19: the transport calls in flight never number more than maxWorkers, and
\* each is made by the function of a work item that a worker of the client's
\* executor is running.
C19_TransportCallsBounded ==
    /\ Cardinality(InFlight) <= maxWorkers
    /\ \A i \in InFlight :
          /\ pc[i] = "running"
          /\ \E w \in workers : wpc[w] = "run" /\ wtask[w] = i

\* two calls in flight, one of them a retry, while a third request waits
C19_Witness ==
    /\ maxWorkers = 2
    /\ Cardinality(InFlight) = 2
    /\ \E i \in InFlight : cAttempt[i] >= 1
    /\ \E j \in Items : pc[j] = "queued"

\* C25: once shutdown has been requested, a worker that resumes after a task
\* leaves the queue as it is.
C25_NoDequeueAfterShutdown ==
    [][\A w \in Items :
          (isShutdown /\ wpc[w] = "next" /\ wpc'[w] # "next") => queue' = queue
      ]_vars

\* C27: a submit call that passed the shutdown check and is waiting for a unit,
\* or holds one without having been handed to a worker, when the executor is
\* shut down, eventually has its handle settled.
C27_AdmittedEventuallySettled ==
    \A i \in Items :
        (isShutdown /\ pc[i] \in {"polling", "admitted"} /\ handle[i] = "pending")
            ~> (handle[i] \in {"resolved", "rejected"})

\* C28: while the executor is not shut down, a non-empty queue means that
\* maxWorkers workers are in their loop (running a task or about to dequeue).
C28_QueuedImpliesWorkersActive ==
    (~isShutdown /\ queue # <<>>) =>
        Cardinality({w \in workers : wpc[w] \in {"run", "next"}}) = maxWorkers

\* C29: in every step, shutdown or not, the counter moves by at most one: down
\* only when a submit call acquires its unit, up only when a running task
\* finishes; it never exceeds bound + maxWorkers, and together with the number
\* of items that hold a unit it equals bound + maxWorkers.
C29_CounterConservation ==
    [][/\ semaphore' \in {semaphore - 1, semaphore, semaphore + 1}
       /\ semaphore' = semaphore - 1 =>
             \E i \in Items : pc[i] \in {"idle", "polling"} /\ pc'[i] = "admitted"
       /\ semaphore' = semaphore + 1 =>
             \E i \in Items : pc[i] = "running" /\ pc'[i] = "done"
       /\ semaphore' <= bound' + maxWorkers'
       /\ semaphore' + Cardinality({i \in Items : HoldsUnit(i)'})
             = bound' + maxWorkers'
      ]_vars

\* after shutdown: a task that was running has finished and released its unit
\* while an item dropped by its worker still holds one
C29_Witness ==
    /\ isShutdown
    /\ \E i \in Items : pc[i] = "done"
    /\ \E j \in Items : pc[j] = "dropped"
    /\ \A k \in Items : pc[k] \in {"done", "dropped"}
    /\ semaphore = bound + maxWorkers - Cardinality({j \in Items : pc[j] = "dropped"})

\* C30: a work item's function is invoked at most once (it starts from the
\* admitted or queued position, to which no item returns) and its handle,
\* once settled, stays as it is; the queue holds each item at most once and
\* only items that have not started; a running item is run by exactly one
\* worker.
C30_AtMostOnce ==
    [][/\ \A i \in Items :
            /\ (pc[i] # "running" /\ pc'[i] = "running") =>
                  pc[i] \in {"admitted", "queued"}
            /\ pc[i] \in {"running", "done"} => pc'[i] \in {"running", "done"}
            /\ pc[i] = "done" => pc'[i] = "done"
            /\ handle[i] \in {"resolved", "rejected"} => handle'[i] = handle[i]
       /\ \A k \in 1..Len(queue') :
            /\ pc'[queue'[k]] = "queued"
            /\ \A l \in 1..Len(queue') : queue'[k] = queue'[l] => k = l
       /\ \A i \in Items :
            Cardinality({w \in Items : wpc'[w] = "run" /\ wtask'[w] = i})
                = (IF pc'[i] = "running" THEN 1 ELSE 0)
      ]_vars

\* a worker has finished the item it was started for, has dequeued another
\* and runs it, while a second worker runs a third item
C30_Witness ==
    \E w, i \in Items :
        /\ w # i /\ wpc[w] = "run" /\ wtask[w] = i /\ qseq[i] > 0
        /\ pc[w] = "done" /\ handle[w] \in {"resolved", "rejected"}
        /\ Cardinality({v \in Items : wpc[v] = "run"}) = 2

\* C21: every error with which a request ends is an SDKException with an
\* error code.
C21_SurfacedErrorsTyped ==
    rpc = "threw" =>
        (InstanceOf(rResult.v, "SDKException") /\ ErrorCode(rResult.v) # "none")

C26_DefaultClassifierTaxonomy ==
    /\ (rHandler = "none" /\ rLast.k = "resp" /\ rResult.via = "defaultHandleError") =>
          /\ rLast.st \in {401, 403} => rResult.v = "InvalidAuthError"
          /\ rLast.st = 404 => rResult.v = "DatasetNotFoundError"
          /\ rLast.st = 429 => rResult.v = "RateLimitError"
          /\ rLast.st = 503 => rResult.v = "ServiceUnavailableError"
          /\ (rLast.st >= 500 /\ rLast.st <= 599 /\ rLast.st # 503) =>
                rResult.v = "ServerError"
    /\ (rLast.k = "axios" /\ rLast.st = 0 /\ rResult.via = "defaultHandleError") =>
          rResult.v = "ServerError"

\* C23: a create() call issues its request exactly when a config is set and
\* has no id; with no config, or with a config that has an id, it throws
\* DatasetError, issues nothing and changes nothing.  A create() whose
\* response carried an id leaves a config with an id, so that the calls
\* which follow are refused.
C23_CreateOnlyWithoutId ==
    [][/\ (dLast'.op = "create" /\ dLast'.res \in {"requested", "DatasetError"}) =>
             /\ dLast'.cfg = dConfig
             /\ dConfig = "noId" =>
                   /\ dLast'.res = "requested"
                   /\ dPending'["create"] = dPending["create"] + 1
             /\ dConfig \in {"null", "withId"} =>
                   /\ dLast'.res = "DatasetError"
                   /\ dPending' = dPending /\ dConfig' = dConfig
       /\ (dLast'.op = "create" /\ dLast'.res = "okWithId") => dConfig' = "withId"
      ]_vars

\* create() has been refused on a config whose id a successful create() stored
C23_Witness ==
    /\ dLast.op = "create" /\ dLast.res = "DatasetError"
    /\ dLast.cfg = "withId" /\ dLast.src = "create"
    /\ dConfig = "withId"
    /\ \A m \in RequestMethods : dPending[m] = 0

\* C24: a delete() that succeeds leaves no config; as long as the instance
\* holds no config, getConfig(), delete(), download(), addColumns() and
\* create() throw DatasetError, issue nothing and leave it so; delete() on a
\* config without an id throws DatasetError and issues nothing.
C24_NoConfigAfterDelete ==
    [][/\ (dLast'.op = "delete" /\ dLast'.res = "ok") => dConfig' = "null"
       /\ (/\ dConfig = "null"
           /\ dLast'.op \in {"getConfig", "delete", "download", "addColumns", "create"}
           /\ dLast'.res \notin {"ok", "okWithId", "okNoId", "failed"}) =>
              /\ dLast'.res = "DatasetError"
              /\ dPending' = dPending /\ dConfig' = "null"
       /\ (/\ dConfig = "noId" /\ dLast'.op = "delete"
           /\ dLast'.res \notin {"ok", "failed"}) =>
              /\ dLast'.res = "DatasetError"
              /\ dPending' = dPending /\ dConfig' = dConfig
      ]_vars

\* the config was taken away by a successful delete() and a later
\* addColumns() has been refused
C24_Witness ==
    /\ dConfig = "null" /\ dLast.src = "delete"
    /\ dLast.op = "addColumns" /\ dLast.res = "DatasetError" /\ dLast.cfg = "null"
    /\ \A m \in RequestMethods : dPending[m] = 0

====
